---------------------------- MODULE Spec2Model ----------------------------
(***************************************************************************)
(* CPU utilization sampler of src/shippingservice/test_cpu_calculation.py: *)
(* read_proc_stat (snapshot acquisition), calculate_cpu_usage (delta to    *)
(* percentage) and main (the sampling loop).                               *)
(*                                                                         *)
(* Text is modelled as a sequence of one-character strings, so that strip, *)
(* startswith, split and int are computed character by character.  A       *)
(* Python float is modelled by the exact rational it approximates, kept in *)
(* lowest terms with a positive denominator; IEEE rounding is monotone and *)
(* exact on the values the properties below single out (0, 75, 100).       *)
(***************************************************************************)
EXTENDS Integers, Sequences, FiniteSets, TLC

VARIABLES
    source,     \* /proc/stat as the reader finds it: [exists, readable, text]
    result,     \* outcome of the read_proc_stat call on source, or NotCalled
    prior,      \* stats1 argument of calculate_cpu_usage
    current,    \* stats2 argument of calculate_cpu_usage
    usage,      \* value of calculate_cpu_usage(prior, current), or NotCalled
    ticks,      \* counter movements applied to current so far
    pc,         \* position of main's loop
    stats1,     \* main's local stats1
    stats2,     \* main's local stats2
    cpu_usage,  \* main's local cpu_usage
    stdout,     \* lines printed since the current cycle began
    reads,      \* contents of /proc/stat at each open of the current cycle
    steps,      \* steps performed since the current cycle began
    cycle,      \* completed iterations of the while loop
    fails,      \* consecutive completed cycles that reported a failure
    cancelled   \* a KeyboardInterrupt has been delivered

readVars == <<source, result>>
calcVars == <<prior, current, usage, ticks>>
loopVars == <<pc, stats1, stats2, cpu_usage, stdout, reads, steps, cycle, fails, cancelled>>
vars == <<source, result, prior, current, usage, ticks, pc, stats1, stats2, cpu_usage,
          stdout, reads, steps, cycle, fails, cancelled>>

-----------------------------------------------------------------------------
(* Bounds of the model *)

\* fields that may follow the eight consumed ones on the first line
MaxTrailing == 2
\* fields of a generated line that hold something else than a plain decimal
MaxBad == 1
\* counter movements (of CounterUnit each) applied between the two snapshots
MaxTicks == 4
\* iterations of the sampling loop
MaxCycles == 3

-----------------------------------------------------------------------------
(* Python values *)

None == [tag |-> "None"]
NotCalled == [tag |-> "NotCalled"]

\* the keys of the dict read_proc_stat builds, in the order of parts[1..8]
Categories == <<"user", "nice", "system", "idle", "iowait", "irq", "softirq", "steal">>

\* the dict literal returned by read_proc_stat, from the eight values in order
Snapshot(v) ==
    [tag |-> "dict", user |-> v[1], nice |-> v[2], system |-> v[3], idle |-> v[4],
     iowait |-> v[5], irq |-> v[6], softirq |-> v[7], steal |-> v[8]]

\* the values of a snapshot dict, in key order
Values(s) == <<s.user, s.nice, s.system, s.idle, s.iowait, s.irq, s.softirq, s.steal>>

Abs(n) == IF n < 0 THEN -n ELSE n

RECURSIVE Gcd(_, _)
Gcd(a, b) == IF b = 0 THEN a ELSE Gcd(b, a % b)

\* the float num/den (den # 0), normalised
Float(num, den) ==
    LET g == Gcd(Abs(num), Abs(den))
        s == IF den < 0 THEN -1 ELSE 1
    IN  [tag |-> "float", num |-> (s * num) \div g, den |-> (s * den) \div g]

\* bool(v): None, an empty dict and 0.0 are false
Truthy(v) ==
    CASE v.tag = "None" -> FALSE
      [] v.tag = "dict" -> TRUE
      [] v.tag = "float" -> v.num # 0
      [] OTHER -> FALSE

(* Outcome of a call: a returned value or a raised exception, with the lines *)
(* the call printed.                                                         *)
Return(v, out) == [kind |-> "return", value |-> v, exc |-> "", out |-> out]
Raise(e, out) == [kind |-> "raise", value |-> None, exc |-> e, out |-> out]

\* the classes derived from Exception among those that arise here;
\* KeyboardInterrupt derives from BaseException only
ExceptionSubclasses == {"FileNotFoundError", "PermissionError", "ValueError"}

-----------------------------------------------------------------------------
(* str methods *)

Whitespace == {" ", "\t", "\n"}
Digits == <<"0", "1", "2", "3", "4", "5", "6", "7", "8", "9">>

IsDigit(c) == \E i \in 1..Len(Digits) : Digits[i] = c
DigitVal(c) == (CHOOSE i \in 1..Len(Digits) : Digits[i] = c) - 1

RECURSIVE lstrip(_)
lstrip(s) == IF s # <<>> /\ Head(s) \in Whitespace THEN lstrip(Tail(s)) ELSE s

RECURSIVE rstrip(_)
rstrip(s) ==
    IF s # <<>> /\ s[Len(s)] \in Whitespace THEN rstrip(SubSeq(s, 1, Len(s) - 1)) ELSE s

strip(s) == rstrip(lstrip(s))

startswith(s, prefix) ==
    Len(s) >= Len(prefix) /\ SubSeq(s, 1, Len(prefix)) = prefix

\* str.split(): the maximal runs of non-whitespace characters
RECURSIVE SplitFrom(_, _, _)
SplitFrom(s, word, acc) ==
    IF s = <<>>
    THEN IF word = <<>> THEN acc ELSE Append(acc, word)
    ELSE IF Head(s) \in Whitespace
         THEN SplitFrom(Tail(s), <<>>, IF word = <<>> THEN acc ELSE Append(acc, word))
         ELSE SplitFrom(Tail(s), Append(word, Head(s)), acc)

split(s) == SplitFrom(s, <<>>, <<>>)

\* file.readline(): the text up to and including the first newline
RECURSIVE readline(_)
readline(text) ==
    IF text = <<>> THEN <<>>
    ELSE IF Head(text) = "\n" THEN <<"\n">>
    ELSE <<Head(text)>> \o readline(Tail(text))

RECURSIVE DigitsValue(_, _)
DigitsValue(s, acc) ==
    IF s = <<>> THEN acc ELSE DigitsValue(Tail(s), 10 * acc + DigitVal(Head(s)))

\* int(tok): an optional sign, then one or more decimal digits; anything else
\* is a ValueError
int(tok) ==
    LET signed == tok # <<>> /\ Head(tok) \in {"-", "+"}
        body == IF signed THEN Tail(tok) ELSE tok
        ok == body # <<>> /\ \A i \in 1..Len(body) : IsDigit(body[i])
    IN  IF ok
        THEN [ok |-> TRUE,
              val |-> IF signed /\ Head(tok) = "-" THEN -DigitsValue(body, 0)
                      ELSE DigitsValue(body, 0)]
        ELSE [ok |-> FALSE, val |-> 0]

\* str(n) for n >= 0, the way the kernel prints a counter
RECURSIVE Decimal(_)
Decimal(n) == IF n < 10 THEN <<Digits[n + 1]>> ELSE Decimal(n \div 10) \o <<Digits[(n % 10) + 1]>>


-----------------------------------------------------------------------------
(* read_proc_stat *)

\* the literal 'cpu ' of the startswith test
CpuPrefix == <<"c", "p", "u", " ">>

\* the length test: len(parts) < 9 returns None
MinParts == 9

\* parts[1] .. parts[8] of the Python list (parts[0] is the marker)
ConsumedLast(parts) == [i \in 1..Len(Categories) |-> parts[Len(parts) - Len(Categories) + i]]
Consumed(parts) == [i \in 1..Len(Categories) |-> parts[i + 1]]

\* the body of the try block
read_body(src) ==
    IF ~src.exists THEN Raise("FileNotFoundError", <<>>)
    ELSE IF ~src.readable THEN Raise("PermissionError", <<>>)
    ELSE
      LET first_line == strip(readline(src.text))
      IN  IF ~startswith(first_line, CpuPrefix) THEN Return(None, <<>>)
          ELSE
            LET parts == split(first_line)
            IN  IF Len(parts) < MinParts THEN Return(None, <<>>)
                ELSE
                  LET parsed == [i \in 1..Len(Categories) |-> int(Consumed(parts)[i])]
                  IN  IF \E i \in 1..Len(Categories) : ~parsed[i].ok
                      THEN Raise("ValueError", <<>>)
                      ELSE Return(Snapshot([i \in 1..Len(Categories) |-> parsed[i].val]), <<>>)

\* the clause "except Exception"
CatchesOSErrorOnly(exc) == exc \in {"FileNotFoundError", "PermissionError"}
CatchesBaseException(exc) == TRUE
Catches(exc) == exc \in ExceptionSubclasses

\* the except clause applied to what the try block did: a caught exception
\* prints the error line and returns None, any other propagates
ExceptClause(o) ==
    IF o.kind = "raise" /\ Catches(o.exc)
    THEN Return(None, Append(o.out, [kind |-> "error", exc |-> o.exc]))
    ELSE o

read_proc_stat(src) == ExceptClause(read_body(src))

-----------------------------------------------------------------------------
(* The statistics source.  marker, sep and fields record how the first line  *)
(* was written (each field with the integer it denotes, if any); the reader  *)
(* sees text only.                                                           *)

Tok(text, isInt, val) == [text |-> text, isInt |-> isInt, val |-> val]

Markers == {<<"c", "p", "u">>, <<"c", "p", "u", "0">>, <<"i", "n", "t", "r">>}
Separators == {<<" ">>, <<" ", " ">>, <<"\t">>}

\* fields that are not a plain decimal number
OddTokens ==
    {Tok(<<"-", "5">>, TRUE, -5), Tok(<<"+", "7">>, TRUE, 7), Tok(<<"x">>, FALSE, 0),
     Tok(<<"1", ".", "5">>, FALSE, 0)}

\* two families of counter values: the prior snapshot of scenario A, and one
\* with a different value at every position
ScenarioPrior == <<100, 0, 50, 800, 50, 0, 0, 0>>
Families == {"scenario", "distinct"}
CounterAt(family, i) ==
    IF family = "scenario"
    THEN IF i <= Len(ScenarioPrior) THEN ScenarioPrior[i] ELSE 0
    ELSE 10 * i + 3

RECURSIVE JoinFields(_)
JoinFields(fields) ==
    IF fields = <<>> THEN <<>>
    ELSE IF Len(fields) = 1 THEN fields[1].text
    ELSE fields[1].text \o <<" ">> \o JoinFields(Tail(fields))

\* lines after the first one
Rests == {<<>>, <<"c", "p", "u", "0", " ", "1", "\n">>}

FileText(marker, sep, fields, rest) ==
    marker \o sep \o JoinFields(fields) \o <<"\n">> \o rest

File(marker, sep, fields, rest) ==
    [exists |-> TRUE, readable |-> TRUE, text |-> FileText(marker, sep, fields, rest),
     marker |-> marker, sep |-> sep, fields |-> fields]

Missing == [exists |-> FALSE, readable |-> FALSE, text |-> <<>>,
            marker |-> <<>>, sep |-> <<>>, fields |-> <<>>]
Unreadable == [exists |-> TRUE, readable |-> FALSE, text |-> <<>>,
               marker |-> <<>>, sep |-> <<>>, fields |-> <<>>]
Empty == [exists |-> TRUE, readable |-> TRUE, text |-> <<>>,
          marker |-> <<>>, sep |-> <<>>, fields |-> <<>>]

\* the field lists of n fields with the fields at positions odd replaced by tok
Fields(family, n, odd, tok) ==
    [i \in 1..n |-> IF i \in odd THEN tok
                    ELSE Tok(Decimal(CounterAt(family, i)), TRUE, CounterAt(family, i))]

Sources ==
    {Missing, Unreadable, Empty} \cup
    {File(m, sep, Fields(fam, n, odd, tok), rest) :
        m \in Markers, sep \in Separators, fam \in Families,
        n \in 0..(Len(Categories) + MaxTrailing),
        odd \in {o \in SUBSET (1..(Len(Categories) + MaxTrailing)) : Cardinality(o) <= MaxBad},
        tok \in OddTokens, rest \in Rests}

-----------------------------------------------------------------------------
(* SpecRead: read_proc_stat applied once to every source *)

InitRead ==
    /\ source \in Sources
    /\ result = NotCalled
    /\ prior = None /\ current = None /\ usage = NotCalled /\ ticks = 0
    /\ pc = "idle" /\ stats1 = None /\ stats2 = None /\ cpu_usage = None
    /\ stdout = <<>> /\ reads = <<>> /\ steps = <<>>
    /\ cycle = 0 /\ fails = 0 /\ cancelled = FALSE

ReadProcStat ==
    /\ pc = "idle"
    /\ result = NotCalled
    /\ result' = read_proc_stat(source)
    /\ UNCHANGED <<source, calcVars, loopVars>>

NextRead == ReadProcStat

SpecRead == InitRead /\ [][NextRead]_vars

-----------------------------------------------------------------------------
(* calculate_cpu_usage *)

RECURSIVE Sum(_)
Sum(seq) == IF seq = <<>> THEN 0 ELSE Head(seq) + Sum(Tail(seq))

\* sum(stats.values())
Total(stats) == Sum(Values(stats))

\* stats['idle'] + stats['iowait']
IdleOnly(stats) == stats.idle
IdleTotal(stats) == stats.idle + stats.iowait

\* total2 - total1
TotalDiffSwapped(total1, total2) == total1 - total2
TotalDiff(total1, total2) == total2 - total1

\* (active_diff / total_diff) * 100.0, for total_diff # 0
Fraction(active_diff, total_diff) == Float(active_diff, total_diff)
Percent(active_diff, total_diff) == Float(active_diff * 100, total_diff)

calculate_cpu_usage(s1, s2) ==
    IF ~Truthy(s1) \/ ~Truthy(s2) THEN None
    ELSE
      LET total1 == Total(s1)
          total2 == Total(s2)
          idle1 == IdleTotal(s1)
          idle2 == IdleTotal(s2)
          active1 == total1 - idle1
          active2 == total2 - idle2
          total_diff == TotalDiff(total1, total2)
          active_diff == active2 - active1
      IN  IF total_diff = 0 THEN Float(0, 1)
          ELSE Percent(active_diff, total_diff)

-----------------------------------------------------------------------------
(* SpecCalc: calculate_cpu_usage applied to pairs of snapshots.  The pair    *)
(* starts from known counter values, the kernel then moves counters of the   *)
(* current snapshot up (time accounted) or down (a counter reset).           *)

ScenarioCurrent == <<150, 0, 75, 825, 50, 0, 0, 0>>
Zeros == [i \in 1..Len(Categories) |-> 0]

\* the step by which a counter moves: the smallest movement of scenario A
CounterUnit == ScenarioCurrent[3] - ScenarioPrior[3]

StartSnapshots == {None, Snapshot(ScenarioPrior), Snapshot(Zeros)}

\* the snapshot with category i moved by d
Moved(s, i, d) == Snapshot([j \in 1..Len(Categories) |-> Values(s)[j] + (IF j = i THEN d ELSE 0)])

InitCalc ==
    /\ prior \in StartSnapshots
    /\ current \in StartSnapshots
    /\ usage = NotCalled /\ ticks = 0
    /\ source = Missing /\ result = NotCalled
    /\ pc = "idle" /\ stats1 = None /\ stats2 = None /\ cpu_usage = None
    /\ stdout = <<>> /\ reads = <<>> /\ steps = <<>>
    /\ cycle = 0 /\ fails = 0 /\ cancelled = FALSE

\* the kernel accounts CounterUnit more time to one category
KernelTick ==
    /\ usage = NotCalled /\ current # None /\ ticks < MaxTicks
    /\ \E i \in 1..Len(Categories) : current' = Moved(current, i, CounterUnit)
    /\ ticks' = ticks + 1
    /\ UNCHANGED <<prior, usage, readVars, loopVars>>

\* a counter falls back (container restart, counter reset)
CounterRegression ==
    /\ usage = NotCalled /\ current # None /\ ticks < MaxTicks
    /\ \E i \in 1..Len(Categories) :
          /\ Values(current)[i] >= CounterUnit
          /\ current' = Moved(current, i, -CounterUnit)
    /\ ticks' = ticks + 1
    /\ UNCHANGED <<prior, usage, readVars, loopVars>>

Calculate ==
    /\ usage = NotCalled
    /\ usage' = calculate_cpu_usage(prior, current)
    /\ UNCHANGED <<prior, current, ticks, readVars, loopVars>>

NextCalc == KernelTick \/ CounterRegression \/ Calculate

SpecCalc == InitCalc /\ [][NextCalc]_vars

-----------------------------------------------------------------------------
(* main: the sampling loop *)

Line(kind, arg) == [kind |-> kind, arg |-> arg]

\* the text printed by the clause "except KeyboardInterrupt"
StoppedLine == Line("stopped", 0)

\* format(v, '.2f') as a number of hundredths, rounding half to even
Format2f(v) ==
    LET n == 100 * v.num
        q == n \div v.den
        r == n % v.den
    IN  IF 2 * r < v.den THEN q
        ELSE IF 2 * r > v.den THEN q + 1
        ELSE IF q % 2 = 0 THEN q ELSE q + 1

\* the test "cpu_usage is not None"
IsTruthy(v) == Truthy(v)
IsNotNone(v) == v # None

\* the if/else of the loop body: the one line a cycle prints about its result
ReportLine(s1, s2, u) ==
    IF Truthy(s1) /\ Truthy(s2)
    THEN IF IsNotNone(u) THEN Line("usage", Format2f(u)) ELSE Line("calc_failed", 0)
    ELSE Line("read_failed", 0)

\* "while True": where control goes once the body has printed its line
AfterReportBreak(line) == IF line.kind = "usage" THEN "acquire1" ELSE "stopped"
AfterReport(line) == "acquire1"

\* the clause "except KeyboardInterrupt" of main: where an exception raised in
\* the loop body takes control
MainExcept(exc) == IF exc = "KeyboardInterrupt" THEN "stopped" ELSE "crashed"

\* what the loop body's exception adds to the output
MainExceptOut(exc) == IF exc = "KeyboardInterrupt" THEN <<StoppedLine>> ELSE <<>>

\* read_proc_stat as main calls it: on src, or with a KeyboardInterrupt
\* delivered while the call runs
Call(src, interrupted) ==
    IF interrupted THEN ExceptClause(Raise("KeyboardInterrupt", <<>>))
    ELSE read_proc_stat(src)

FieldsOf(vals) == [i \in 1..Len(vals) |-> Tok(Decimal(vals[i]), TRUE, vals[i])]

\* what /proc/stat may hold when the loop opens it
LoopSources ==
    {Missing,
     File(<<"c", "p", "u", "0">>, <<" ">>, FieldsOf(ScenarioPrior), <<>>),
     File(<<"c", "p", "u">>, <<" ", " ">>, FieldsOf(SubSeq(ScenarioPrior, 1, 5)), <<>>),
     File(<<"c", "p", "u">>, <<" ", " ">>, Fields("scenario", Len(Categories), {2}, Tok(<<"x">>, FALSE, 0)), <<>>),
     File(<<"c", "p", "u">>, <<" ", " ">>, FieldsOf(ScenarioPrior), <<>>),
     File(<<"c", "p", "u">>, <<" ", " ">>, FieldsOf(ScenarioPrior \o <<0, 0>>), <<>>),
     File(<<"c", "p", "u">>, <<" ", " ">>, FieldsOf(ScenarioCurrent \o <<0, 0>>), <<>>)}

LoopPcs == {"acquire1", "sleep", "acquire2", "compute", "report"}

Init ==
    /\ pc = "acquire1"
    /\ stats1 = None /\ stats2 = None /\ cpu_usage = None
    /\ stdout = <<>> /\ reads = <<>> /\ steps = <<>>
    /\ cycle = 0 /\ fails = 0 /\ cancelled = FALSE
    /\ source = Missing /\ result = NotCalled
    /\ prior = None /\ current = None /\ usage = NotCalled /\ ticks = 0

\* an exception leaves the loop body: only the output and the position change
Leave(exc) ==
    /\ pc' = MainExcept(exc)
    /\ stdout' = stdout \o MainExceptOut(exc)
    /\ UNCHANGED <<stats1, stats2, cpu_usage, reads, steps, cycle, fails>>

\* stats1 = read_proc_stat(), reusing the previous cycle's stats2 after the
\* first cycle
Acquire1Carried ==
    /\ pc = "acquire1" /\ cycle < MaxCycles
    /\ \E src \in LoopSources :
          LET o == Call(src, FALSE)
          IN  IF cycle = 0
              THEN /\ stats1' = o.value
                   /\ reads' = <<src>>
                   /\ stdout' = o.out
              ELSE /\ stats1' = stats2
                   /\ reads' = <<>>
                   /\ stdout' = <<>>
    /\ pc' = "sleep"
    /\ steps' = <<"acquire">>
    /\ UNCHANGED <<stats2, cpu_usage, cycle, fails, cancelled, readVars, calcVars>>

\* stats1 = read_proc_stat()
Acquire1 ==
    /\ pc = "acquire1" /\ cycle < MaxCycles
    /\ \E src \in LoopSources, interrupted \in BOOLEAN :
          LET o == Call(src, interrupted)
          IN  /\ cancelled' = (cancelled \/ interrupted)
              /\ IF o.kind = "return"
                 THEN /\ stats1' = o.value
                      /\ pc' = "sleep"
                      /\ reads' = <<src>>
                      /\ steps' = <<"acquire">>
                      /\ stdout' = o.out
                      /\ UNCHANGED <<stats2, cpu_usage, cycle, fails>>
                 ELSE Leave(o.exc)
    /\ UNCHANGED <<readVars, calcVars>>

\* time.sleep(2)
Sleep ==
    /\ pc = "sleep"
    /\ pc' = "acquire2"
    /\ steps' = Append(steps, "wait")
    /\ UNCHANGED <<stats1, stats2, cpu_usage, stdout, reads, cycle, fails, cancelled,
                   readVars, calcVars>>

\* stats2 = read_proc_stat()
Acquire2 ==
    /\ pc = "acquire2"
    /\ \E src \in LoopSources, interrupted \in BOOLEAN :
          LET o == Call(src, interrupted)
          IN  /\ cancelled' = (cancelled \/ interrupted)
              /\ IF o.kind = "return"
                 THEN /\ stats2' = o.value
                      /\ pc' = "compute"
                      /\ reads' = Append(reads, src)
                      /\ steps' = Append(steps, "acquire")
                      /\ stdout' = stdout \o o.out
                      /\ UNCHANGED <<stats1, cpu_usage, cycle, fails>>
                 ELSE Leave(o.exc)
    /\ UNCHANGED <<readVars, calcVars>>

\* if stats1 and stats2: cpu_usage = calculate_cpu_usage(stats1, stats2)
Compute ==
    /\ pc = "compute"
    /\ cpu_usage' = IF Truthy(stats1) /\ Truthy(stats2)
                    THEN calculate_cpu_usage(stats1, stats2)
                    ELSE cpu_usage
    /\ pc' = "report"
    /\ steps' = Append(steps, "compute")
    /\ UNCHANGED <<stats1, stats2, stdout, reads, cycle, fails, cancelled,
                   readVars, calcVars>>

\* the print of the taken branch, then back to the head of the loop
Report ==
    /\ pc = "report"
    /\ LET line == ReportLine(stats1, stats2, cpu_usage)
       IN  /\ stdout' = Append(stdout, line)
           /\ pc' = AfterReport(line)
           /\ fails' = IF line.kind = "usage" THEN fails ELSE fails + 1
    /\ steps' = Append(steps, "report")
    /\ cycle' = cycle + 1
    /\ UNCHANGED <<stats1, stats2, cpu_usage, reads, cancelled, readVars, calcVars>>

\* Ctrl+C while main itself runs: in the wait, or before the body computes or
\* prints (a delivery inside read_proc_stat is part of Acquire1 and Acquire2)
KeyboardInterrupt ==
    /\ pc \in {"sleep", "compute", "report"}
    /\ cancelled' = TRUE
    /\ Leave("KeyboardInterrupt")
    /\ UNCHANGED <<readVars, calcVars>>

Next == Acquire1 \/ Sleep \/ Acquire2 \/ Compute \/ Report \/ KeyboardInterrupt

Spec == Init /\ [][Next]_vars

-----------------------------------------------------------------------------
(* Properties of read_proc_stat, checked under SpecRead *)

CpuMarker == <<"c", "p", "u">>
NumFields == Len(Categories)

\* the first line carries the aggregate marker and eight integer fields
WellFormed(src) ==
    /\ src.exists /\ src.readable
    /\ src.marker = CpuMarker
    /\ Len(src.fields) >= NumFields
    /\ \A i \in 1..NumFields : src.fields[i].isInt

\* C1: read_proc_stat never raises to its caller; it returns None when the
\* source is missing or unreadable, when the first line lacks the aggregate
\* marker, when fewer than eight fields follow, and when one of the eight
\* fields it reads is not integer text; and what it returns otherwise than
\* None is a dict of exactly the eight categories, each an integer.
C1_FailuresYieldNone ==
    result # NotCalled =>
        /\ result.kind = "return"
        /\ ~WellFormed(source) => result.value = None
        /\ result.value # None =>
              /\ DOMAIN result.value = {"tag"} \cup {Categories[i] : i \in 1..NumFields}
              /\ \A i \in 1..NumFields : Values(result.value)[i] \in Int

\* a ValueError raised by int() on one of the eight fields was caught
C1_Witness ==
    /\ result # NotCalled
    /\ source.exists /\ source.readable /\ source.marker = CpuMarker
    /\ source.sep = <<" ">>
    /\ Len(source.fields) >= NumFields
    /\ \E i \in 1..NumFields : ~source.fields[i].isInt
    /\ result.kind = "return" /\ result.value = None
    /\ result.out = <<[kind |-> "error", exc |-> "ValueError"]>>

\* C7: every snapshot read_proc_stat returns holds non-negative integers only;
\* a line with a negative field yields None.
C7_SnapshotsNonNegative ==
    (result # NotCalled /\ result.kind = "return" /\ result.value # None) =>
        \A i \in 1..NumFields : Values(result.value)[i] >= 0

\* C8: fields after the eighth change nothing: a line with the marker and
\* eight integer fields reads as the same line cut after its eighth field
\* does, and, the marker being followed by spaces, as the snapshot of the
\* eight integers the fields denote.
C8_TrailingFieldsIgnored ==
    (result # NotCalled /\ WellFormed(source)) =>
        LET first8 == SubSeq(source.fields, 1, NumFields)
            cut == File(source.marker, source.sep, first8, <<>>)
        IN  /\ result = read_proc_stat(cut)
            /\ source.sep \in {<<" ">>, <<" ", " ">>} =>
                  /\ result.kind = "return"
                  /\ result.value = Snapshot([i \in 1..NumFields |-> first8[i].val])

\* a snapshot was read from a line with trailing fields, one of them no integer
C8_Witness ==
    /\ result # NotCalled /\ WellFormed(source)
    /\ Len(source.fields) = NumFields + MaxTrailing
    /\ ~source.fields[NumFields + 1].isInt
    /\ result.kind = "return" /\ result.value # None
    /\ result.value.steal = source.fields[NumFields].val
    /\ result.value.steal # source.fields[Len(source.fields)].val

-----------------------------------------------------------------------------
(* Properties of calculate_cpu_usage, checked under SpecCalc *)

\* total, idle_time and active of a snapshot, as the specification defines them
RefTotal(s) == s.user + s.nice + s.system + s.idle + s.iowait + s.irq + s.softirq + s.steal
RefIdleTime(s) == s.idle + s.iowait
RefActive(s) == RefTotal(s) - RefIdleTime(s)

TotalDelta == RefTotal(current) - RefTotal(prior)
ActiveDelta == RefActive(current) - RefActive(prior)

\* calculate_cpu_usage has been applied to two present snapshots
Calculated == usage # NotCalled /\ prior # None /\ current # None

\* C2: on two present snapshots calculate_cpu_usage returns 0.0 when
\* total_delta = 0 and (active_delta / total_delta) * 100 otherwise; scenario A
\* gives 75.0.
C2_ReferenceValue ==
    Calculated =>
        /\ usage.tag = "float" /\ usage.den > 0
        /\ TotalDelta = 0 => (usage.num = 0 /\ usage.den = 1)
        /\ TotalDelta # 0 => usage.num * TotalDelta = 100 * ActiveDelta * usage.den
        /\ (prior = Snapshot(ScenarioPrior) /\ current = Snapshot(ScenarioCurrent)) =>
              (usage.num = 75 /\ usage.den = 1)

\* scenario A has been calculated
C2_Witness ==
    /\ Calculated
    /\ prior = Snapshot(ScenarioPrior) /\ current = Snapshot(ScenarioCurrent)
    /\ usage = [tag |-> "float", num |-> 75, den |-> 1]

\* C3 as stated: whenever active_delta = total_delta the result is 100.0.
C3_AllActiveIs100_Original ==
    (Calculated /\ ActiveDelta = TotalDelta) => (usage.num = 100 /\ usage.den = 1)

\* C3 as amended: whenever active_delta = total_delta and total_delta # 0 the
\* result is exactly 100.0 (with total_delta = 0 it is 0.0).
C3_AllActiveIs100 ==
    /\ (Calculated /\ ActiveDelta = TotalDelta /\ TotalDelta # 0) =>
          (usage.num = 100 /\ usage.den = 1)
    /\ (Calculated /\ ActiveDelta = TotalDelta /\ TotalDelta = 0) =>
          (usage.num = 0 /\ usage.den = 1)

\* all of the counted time between two different snapshots was active
C3_Witness ==
    /\ Calculated
    /\ ActiveDelta = TotalDelta /\ TotalDelta > 0
    /\ RefIdleTime(current) = RefIdleTime(prior)
    /\ usage = [tag |-> "float", num |-> 100, den |-> 1]

\* no counter of current is below the same counter of prior, none is negative
Monotone ==
    \A i \in 1..NumFields :
        /\ Values(prior)[i] >= 0
        /\ Values(current)[i] >= Values(prior)[i]

\* C10: with non-negative, non-decreasing counters 0 <= active_delta <=
\* total_delta and the result lies in [0, 100].
C10_RangeWhenMonotone ==
    (Calculated /\ Monotone) =>
        /\ 0 <= ActiveDelta /\ ActiveDelta <= TotalDelta
        /\ 0 <= usage.num /\ usage.num <= 100 * usage.den

\* a result strictly inside the range, from counters that all moved forward
C10_Witness ==
    /\ Calculated /\ Monotone
    /\ 0 < ActiveDelta /\ ActiveDelta < TotalDelta
    /\ 0 < usage.num /\ usage.num < 100 * usage.den

\* C10, second half: nothing clamps the result of a counter regression; this
\* state is reachable (its negation is no invariant of SpecCalc)
C10_RegressionOutOfRange ==
    /\ Calculated /\ ~Monotone
    /\ (usage.num < 0 \/ usage.num > 100 * usage.den)

-----------------------------------------------------------------------------
(* Properties of the sampling loop, checked under Spec *)

IsReport(line) == line.kind \in {"usage", "calc_failed", "read_failed"}
IsFailure(line) == line.kind \in {"calc_failed", "read_failed"}

\* the lines among out that report a cycle's result
ReportLines(out) == SelectSeq(out, IsReport)

Last(seq) == seq[Len(seq)]

\* the current cycle has printed its result
Reported == steps # <<>> /\ Last(steps) = "report"

\* C4: no acquisition failure ends the loop.  A step that delivers no
\* cancellation leaves the loop running; the report of a cycle with a missing
\* snapshot is one failure line, the report of a cycle with both snapshots is
\* a value whatever failed before, and either is followed by the first
\* acquisition of the next cycle, which starts with no report of its own.
C4_NoFailureIsFatal ==
    [][ /\ (pc \in LoopPcs /\ ~cancelled') => pc' \in LoopPcs
        /\ (pc = "report" /\ ~cancelled') =>
              /\ pc' = "acquire1"
              /\ cycle' = cycle + 1
              /\ Len(ReportLines(stdout')) = 1
              /\ (stats1 = None \/ stats2 = None) => IsFailure(Last(stdout'))
              /\ (stats1 # None /\ stats2 # None) => Last(stdout').kind = "usage"
        /\ (pc = "acquire1" /\ pc' = "sleep") => ReportLines(stdout') = <<>>
      ]_vars

\* two failed cycles, then a cycle that reported a value
C4_Witness ==
    /\ pc = "acquire1" /\ ~cancelled
    /\ fails >= 2 /\ cycle = fails + 1
    /\ Reported /\ Last(stdout).kind = "usage"

\* C5: a cycle reports a value if and only if both of its snapshots are
\* present; with a snapshot missing it reports a failure, and with two present
\* snapshots of equal totals it reports the value 0.00.
C5_ValueIffBothPresent ==
    Reported =>
        /\ Len(ReportLines(stdout)) = 1
        /\ LET line == ReportLines(stdout)[1]
           IN  /\ (line.kind = "usage") <=> (stats1 # None /\ stats2 # None)
               /\ (stats1 = None \/ stats2 = None) => IsFailure(line)
               /\ (stats1 # None /\ stats2 # None /\ RefTotal(stats1) = RefTotal(stats2)) =>
                     line = Line("usage", 0)

\* a cycle without counter progress reported 0.00
C5_Witness ==
    /\ Reported
    /\ stats1 # None /\ stats2 # None /\ RefTotal(stats1) = RefTotal(stats2)
    /\ Last(stdout) = Line("usage", 0)

\* C6: while no cancellation has arrived (and the modelled number of cycles is
\* not used up) the loop can take its next step; only a cancellation ends the
\* loop, and it ends it at once: the step
\* that delivers it goes to the exit, printing the stop message and nothing
\* else, without finishing the acquisition, wait, computation or report in
\* progress; nothing happens after it.
C6_CancellationExitsCleanly ==
    [][ /\ ~cancelled
        /\ pc' # "crashed"
        /\ pc' = "stopped" => cancelled'
        /\ cancelled' =>
              /\ pc' = "stopped"
              /\ stdout' = Append(stdout, StoppedLine)
              /\ UNCHANGED <<stats1, stats2, cpu_usage, reads, steps, cycle, fails>>
      ]_vars
    /\ []((~cancelled /\ cycle < MaxCycles) =>
            ENABLED <<Acquire1 \/ Sleep \/ Acquire2 \/ Compute \/ Report>>_vars)

\* the loop was cancelled during the wait of its second cycle
C6_Witness ==
    /\ pc = "stopped" /\ cancelled
    /\ cycle = 1 /\ steps = <<"acquire">>
    /\ ReportLines(stdout) = <<>>

CycleOrder == <<"acquire", "wait", "acquire", "compute", "report">>

\* the position of the loop after n steps of a cycle
PcAfter(n) == <<"sleep", "acquire2", "compute", "report", "acquire1">>[n]

\* C9: a cycle is acquire, wait, acquire, compute, report, in this order: the
\* steps of the current cycle are an initial part of that sequence, every
\* acquire of the cycle is an open of /proc/stat by this cycle, stats1 and
\* stats2 are what the first and the second of them returned, and the cycle
\* prints its one report line with its last step.
C9_CycleOrder ==
    /\ Len(steps) <= Len(CycleOrder)
    /\ steps = SubSeq(CycleOrder, 1, Len(steps))
    /\ (pc \in LoopPcs /\ steps # <<>>) => pc = PcAfter(Len(steps))
    /\ steps = <<>> => (pc \in {"acquire1", "stopped"} /\ cycle = 0)
    /\ Len(reads) = Len(SelectSeq(steps, LAMBDA x : x = "acquire"))
    /\ Len(ReportLines(stdout)) = (IF Reported THEN 1 ELSE 0)
    /\ Len(reads) >= 1 => stats1 = read_proc_stat(reads[1]).value
    /\ Len(reads) >= 2 => stats2 = read_proc_stat(reads[2]).value
    /\ (Len(steps) \in 1..2 /\ cycle = 0) => stats2 = None

\* a later cycle has just acquired its prior snapshot: it differs from the
\* current snapshot of the cycle before, which stats2 still holds
C9_Witness ==
    /\ cycle >= 1 /\ pc = "sleep"
    /\ steps = <<"acquire">>
    /\ stats2 = Snapshot(ScenarioCurrent)
    /\ stats1 = Snapshot(ScenarioPrior)
    /\ Len(reads) = 1

=============================================================================
